---- MODULE Spec2Model ----
(***************************************************************************)
(* Model of examples/create-anytrust-custom-fee-token/index.ts: the        *)
(* module-level startup (environment checks, identity loading, client      *)
(* construction) followed by main(), which builds the chain parameters,    *)
(* runs the rollup deployment inside one try/catch and then the keyset     *)
(* request inside a second try/catch.                                      *)
(*                                                                         *)
(* Strings that the script inspects (secrets, addresses, endpoints) are    *)
(* sequences of one-character strings.  Calls into viem and the SDK that   *)
(* reach the network may return or throw; both outcomes are modelled.      *)
(***************************************************************************)
EXTENDS Integers, Sequences, FiniteSets, TLC

\* ------------------------------------------------------------------ bounds
\* number of hex digits of a private key / an address in the model
HexLen == 2
\* generateChainId() draws from 1..MaxChainId
MaxChainId == 2

\* ----------------------------------------------------------------- strings
\* process.env.X of a variable that is not set
Undefined == <<"undefined">>
EmptyStr == <<>>
HexDigits == {"1", "2"}

HexStr(d) == [i \in 1..HexLen |-> d]

HasHexPrefix(s) == Len(s) >= 2 /\ s[1] = "0" /\ s[2] = "x"

AddHexPrefix(s) == <<"0", "x">> \o s

\* `0x` followed by exactly HexLen hex digits
IsWellFormedHex(s) ==
    /\ HasHexPrefix(s)
    /\ Len(s) = HexLen + 2
    /\ \A i \in 3..Len(s) : s[i] \in HexDigits

IsAddress(s) == IsWellFormedHex(s)

\* sanitizePrivateKey of @arbitrum/orbit-sdk/utils: the normalized form
NormalizePrivateKey(s) == IF HasHexPrefix(s) THEN s ELSE AddHexPrefix(s)

\* sanitizePrivateKey: normalizes, and rejects a malformed secret
sanitizePrivateKey(s) ==
    [ok |-> IsWellFormedHex(NormalizePrivateKey(s)), value |-> NormalizePrivateKey(s)]

\* the well-formed keys, among which generatePrivateKey() draws
GeneratedKeys == {AddHexPrefix(s) : s \in [1..HexLen -> HexDigits]}

RECURSIVE ReverseSeq(_)
ReverseSeq(s) == IF s = <<>> THEN <<>> ELSE Append(ReverseSeq(Tail(s)), Head(s))

\* privateKeyToAccount(key).address: an address derived from the key digits
AddressOfKey(k) == AddHexPrefix(ReverseSeq(SubSeq(k, 3, Len(k))))

privateKeyToAccount(k) == [address |-> AddressOfKey(k), key |-> k]

\* ------------------------------------------------------------- environment
\* values an identity secret variable may hold
SecretValues ==
    { Undefined, EmptyStr, HexStr("1"), AddHexPrefix(<<"1", "2">> \o [i \in 1..(HexLen - 2) |-> "1"]), <<"g">> }

\* values CUSTOM_FEE_TOKEN_ADDRESS may hold
FeeTokenValues == { Undefined, EmptyStr, AddHexPrefix(HexStr("2")), <<"0", "x", "g">> }

\* values PARENT_CHAIN_RPC may hold
RpcValues == { Undefined, EmptyStr, <<"r">> }

\* http(undefined) and http('') use the endpoint of the chain definition
DefaultRpc == <<"d">>

NoAccount == [address |-> Undefined, key |-> Undefined]
NoClient == [kind |-> "none", url |-> Undefined, account |-> NoAccount]


\* ------------------------------------------------------------------- state
VARIABLES
    env,                    \* process.env
    pc,                     \* position of the script
    thrown,                 \* the error that ended the process, "" if none
    log,                    \* console output, in order
    calls,                  \* calls that reach the network, in order
    batchPosterPrivateKey, batchPoster,
    validatorPrivateKey, validator,
    parentChainPublicClient,
    deployer,
    walletClient,
    chainId, nativeToken, createRollupConfig,
    deployArgs,             \* argument of createRollupPrepareTransactionRequest
    txRequest, txHash,
    waitArgs,               \* argument of waitForTransactionReceipt
    receipt, coreContracts,
    sent,                   \* requests given to walletClient.sendTransaction
    keysetArgs,             \* argument of setValidKeysetPrepareTransactionRequest
    keysetRequest

vars == << env, pc, thrown, log, calls, batchPosterPrivateKey, batchPoster,
           validatorPrivateKey, validator, parentChainPublicClient, deployer,
           walletClient, chainId, nativeToken, createRollupConfig, deployArgs, txRequest,
           txHash, waitArgs, receipt, coreContracts, sent, keysetArgs, keysetRequest >>

startupVars == << batchPosterPrivateKey, batchPoster, validatorPrivateKey,
                  validator, parentChainPublicClient, deployer, walletClient >>

mainVars == << chainId, nativeToken, createRollupConfig, deployArgs, txRequest, txHash,
               waitArgs, receipt, coreContracts, sent, keysetArgs, keysetRequest >>

NoConfig == [chainId |-> 0, owner |-> Undefined, chainConfig |-> [chainId |-> 0, InitialChainOwner |-> Undefined, DataAvailabilityCommittee |-> FALSE]]
NoRequest == [kind |-> "none"]
NoReceipt == [transactionHash |-> "", rollupCreated |-> FALSE]
NoContracts == [rollup |-> "", inbox |-> "", upgradeExecutor |-> "", sequencerInbox |-> ""]

LogLine(level, msg, args) == [level |-> level, msg |-> msg, args |-> args]

Call(fn, ok) == [fn |-> fn, ok |-> ok]

Init ==
    /\ env \in [ DEPLOYER_PRIVATE_KEY : SecretValues,
                 CUSTOM_FEE_TOKEN_ADDRESS : FeeTokenValues,
                 PARENT_CHAIN_RPC : RpcValues,
                 BATCH_POSTER_PRIVATE_KEY : SecretValues,
                 VALIDATOR_PRIVATE_KEY : SecretValues ]
    /\ pc = "CheckDeployerKey"
    /\ thrown = ""
    /\ log = <<>>
    /\ calls = <<>>
    /\ batchPosterPrivateKey = Undefined
    /\ batchPoster = Undefined
    /\ validatorPrivateKey = Undefined
    /\ validator = Undefined
    /\ parentChainPublicClient = NoClient
    /\ deployer = NoAccount
    /\ walletClient = NoClient
    /\ chainId = 0
    /\ nativeToken = Undefined
    /\ createRollupConfig = NoConfig
    /\ deployArgs = NoRequest
    /\ txRequest = NoRequest
    /\ txHash = ""
    /\ waitArgs = NoRequest
    /\ receipt = NoReceipt
    /\ coreContracts = NoContracts
    /\ sent = <<>>
    /\ keysetArgs = NoRequest
    /\ keysetRequest = NoRequest

\* ----------------------------------------------------------------- startup
\* an error thrown at module level ends the process before main() is called
Crash(err) ==
    /\ pc' = "Crashed"
    /\ thrown' = err

\* index.ts:23-25
CheckDeployerKey ==
    /\ pc = "CheckDeployerKey"
    /\ IF env.DEPLOYER_PRIVATE_KEY = Undefined
         THEN Crash("Please provide the DEPLOYER_PRIVATE_KEY environment variable")
         ELSE pc' = "CheckFeeToken" /\ UNCHANGED thrown
    /\ UNCHANGED << env, log, calls, startupVars, mainVars >>

\* index.ts:27-29, as a mutant: the check of CUSTOM_FEE_TOKEN_ADDRESS is missing
CheckFeeTokenUnchecked ==
    /\ pc = "CheckFeeToken"
    /\ pc' = "CheckRpc"
    /\ UNCHANGED << env, thrown, log, calls, startupVars, mainVars >>

\* index.ts:27-29
CheckFeeToken ==
    /\ pc = "CheckFeeToken"
    /\ IF env.CUSTOM_FEE_TOKEN_ADDRESS = Undefined
         THEN Crash("Please provide the CUSTOM_FEE_TOKEN_ADDRESS environment variable")
         ELSE pc' = "CheckRpc" /\ UNCHANGED thrown
    /\ UNCHANGED << env, log, calls, startupVars, mainVars >>

\* index.ts:31-35, as a mutant: the empty string is not tested
CheckRpcUndefinedOnly ==
    /\ pc = "CheckRpc"
    /\ IF env.PARENT_CHAIN_RPC = Undefined
         THEN log' = Append(log, LogLine("warn", "Warning: default rpc endpoint", <<>>))
         ELSE UNCHANGED log
    /\ pc' = "LoadBatchPoster"
    /\ UNCHANGED << env, thrown, calls, startupVars, mainVars >>

\* index.ts:31-35
CheckRpc ==
    /\ pc = "CheckRpc"
    /\ IF env.PARENT_CHAIN_RPC = Undefined \/ env.PARENT_CHAIN_RPC = EmptyStr
         THEN log' = Append(log, LogLine("warn", "Warning: default rpc endpoint", <<>>))
         ELSE UNCHANGED log
    /\ pc' = "LoadBatchPoster"
    /\ UNCHANGED << env, thrown, calls, startupVars, mainVars >>

\* the keys of this run: the ones already resolved and the supplied ones
KeysInUse ==
    {batchPosterPrivateKey, validatorPrivateKey, deployer.key}
    \cup {NormalizePrivateKey(env.BATCH_POSTER_PRIVATE_KEY),
          NormalizePrivateKey(env.VALIDATOR_PRIVATE_KEY),
          NormalizePrivateKey(env.DEPLOYER_PRIVATE_KEY)}

\* index.ts:17: generatePrivateKey() returns a fresh random key, one that
\* coincides with no other key of the run
generatePrivateKey == GeneratedKeys \ KeysInUse

\* index.ts:15-21, as a mutant: a secret that cannot be sanitized is replaced
\* by a generated key
withFallbackPrivateKeySilent(privateKey) ==
    IF privateKey = Undefined \/ privateKey = EmptyStr
      THEN generatePrivateKey
      ELSE IF sanitizePrivateKey(privateKey).ok
             THEN {sanitizePrivateKey(privateKey).value}
             ELSE generatePrivateKey

\* index.ts:15-21: the keys withFallbackPrivateKey may return; the empty set
\* when sanitizePrivateKey throws
withFallbackPrivateKey(privateKey) ==
    IF privateKey = Undefined \/ privateKey = EmptyStr
      THEN generatePrivateKey
      ELSE IF sanitizePrivateKey(privateKey).ok
             THEN {sanitizePrivateKey(privateKey).value}
             ELSE {}

\* index.ts:38-39
LoadBatchPoster ==
    /\ pc = "LoadBatchPoster"
    /\ IF withFallbackPrivateKey(env.BATCH_POSTER_PRIVATE_KEY) = {}
         THEN /\ Crash("InvalidKeyFormat")
              /\ UNCHANGED << batchPosterPrivateKey, batchPoster >>
         ELSE /\ \E k \in withFallbackPrivateKey(env.BATCH_POSTER_PRIVATE_KEY) :
                    /\ batchPosterPrivateKey' = k
                    /\ batchPoster' = privateKeyToAccount(k).address
              /\ pc' = "LoadValidator"
              /\ UNCHANGED thrown
    /\ UNCHANGED << env, log, calls, validatorPrivateKey, validator,
                    parentChainPublicClient, deployer, walletClient, mainVars >>

\* index.ts:42-43, as a mutant: the validator is loaded from the batch poster's
\* variable
LoadValidatorFromBatchPosterKey ==
    /\ pc = "LoadValidator"
    /\ IF withFallbackPrivateKey(env.BATCH_POSTER_PRIVATE_KEY) = {}
         THEN /\ Crash("InvalidKeyFormat")
              /\ UNCHANGED << validatorPrivateKey, validator >>
         ELSE /\ \E k \in withFallbackPrivateKey(env.BATCH_POSTER_PRIVATE_KEY) :
                    /\ validatorPrivateKey' = k
                    /\ validator' = privateKeyToAccount(k).address
              /\ pc' = "CreatePublicClient"
              /\ UNCHANGED thrown
    /\ UNCHANGED << env, log, calls, batchPosterPrivateKey, batchPoster,
                    parentChainPublicClient, deployer, walletClient, mainVars >>

\* index.ts:42-43
LoadValidator ==
    /\ pc = "LoadValidator"
    /\ IF withFallbackPrivateKey(env.VALIDATOR_PRIVATE_KEY) = {}
         THEN /\ Crash("InvalidKeyFormat")
              /\ UNCHANGED << validatorPrivateKey, validator >>
         ELSE /\ \E k \in withFallbackPrivateKey(env.VALIDATOR_PRIVATE_KEY) :
                    /\ validatorPrivateKey' = k
                    /\ validator' = privateKeyToAccount(k).address
              /\ pc' = "CreatePublicClient"
              /\ UNCHANGED thrown
    /\ UNCHANGED << env, log, calls, batchPosterPrivateKey, batchPoster,
                    parentChainPublicClient, deployer, walletClient, mainVars >>

\* http(url): the endpoint a transport is bound to
http(url) == IF url = Undefined \/ url = EmptyStr THEN DefaultRpc ELSE url

\* index.ts:46-50
CreatePublicClient ==
    /\ pc = "CreatePublicClient"
    /\ parentChainPublicClient' =
           [kind |-> "public", url |-> http(env.PARENT_CHAIN_RPC), account |-> NoAccount]
    /\ pc' = "LoadDeployer"
    /\ UNCHANGED << env, thrown, log, calls, batchPosterPrivateKey, batchPoster,
                    validatorPrivateKey, validator, deployer, walletClient, mainVars >>

\* index.ts:53, as a mutant: the deployer key goes through withFallbackPrivateKey
LoadDeployerAccountsFallback(privateKey) ==
    {privateKeyToAccount(k) : k \in withFallbackPrivateKey(privateKey)}

\* index.ts:53: the accounts the deployer may be loaded as; the empty set when
\* sanitizePrivateKey throws
LoadDeployerAccounts(privateKey) ==
    IF sanitizePrivateKey(privateKey).ok
      THEN {privateKeyToAccount(sanitizePrivateKey(privateKey).value)}
      ELSE {}

\* index.ts:53
LoadDeployer ==
    /\ pc = "LoadDeployer"
    /\ IF LoadDeployerAccounts(env.DEPLOYER_PRIVATE_KEY) = {}
         THEN /\ Crash("InvalidKeyFormat")
              /\ UNCHANGED deployer
         ELSE /\ \E a \in LoadDeployerAccounts(env.DEPLOYER_PRIVATE_KEY) : deployer' = a
              /\ pc' = "CreateWalletClient"
              /\ UNCHANGED thrown
    /\ UNCHANGED << env, log, calls, batchPosterPrivateKey, batchPoster,
                    validatorPrivateKey, validator, parentChainPublicClient,
                    walletClient, mainVars >>

\* index.ts:56-60
CreateWalletClient ==
    /\ pc = "CreateWalletClient"
    /\ walletClient' =
           [kind |-> "wallet", url |-> http(env.PARENT_CHAIN_RPC), account |-> deployer]
    /\ pc' = "CallMain"
    /\ UNCHANGED << env, thrown, log, calls, batchPosterPrivateKey, batchPoster,
                    validatorPrivateKey, validator, parentChainPublicClient,
                    deployer, mainVars >>

\* index.ts:139
CallMain ==
    /\ pc = "CallMain"
    /\ pc' = "BuildChainParameters"
    /\ UNCHANGED << env, thrown, log, calls, startupVars, mainVars >>


\* -------------------------------------------------------------------- main
\* index.ts:46
parentChain == "arbitrumSepolia"

\* generateChainId()
ChainIds == 1..MaxChainId

\* prepareChainConfig({chainId, arbitrum: {InitialChainOwner, DataAvailabilityCommittee}})
prepareChainConfig(id, owner) ==
    [chainId |-> id, InitialChainOwner |-> owner, DataAvailabilityCommittee |-> TRUE]

\* createRollupPrepareDeploymentParamsConfig(client, {chainId, owner, chainConfig})
createRollupPrepareDeploymentParamsConfig(id, owner, chainConfig) ==
    [chainId |-> id, owner |-> owner, chainConfig |-> chainConfig]

\* index.ts:63-78, as a mutant: generateChainId() is called a second time for
\* the chain config
BuildChainParametersTwoIds ==
    /\ pc = "BuildChainParameters"
    /\ \E id \in ChainIds, id2 \in ChainIds :
          /\ chainId' = id
          /\ createRollupConfig' =
                 createRollupPrepareDeploymentParamsConfig(
                     id, deployer.address, prepareChainConfig(id2, deployer.address))
    /\ nativeToken' = env.CUSTOM_FEE_TOKEN_ADDRESS
    /\ pc' = "PrepareDeployRequest"
    /\ UNCHANGED << env, thrown, log, calls, startupVars, waitArgs, deployArgs, txRequest,
                    txHash, receipt, coreContracts, sent, keysetArgs, keysetRequest >>

\* index.ts:63-78
BuildChainParameters ==
    /\ pc = "BuildChainParameters"
    /\ \E id \in ChainIds :
          /\ chainId' = id
          /\ createRollupConfig' =
                 createRollupPrepareDeploymentParamsConfig(
                     id, deployer.address, prepareChainConfig(id, deployer.address))
    /\ nativeToken' = env.CUSTOM_FEE_TOKEN_ADDRESS
    /\ pc' = "PrepareDeployRequest"
    /\ UNCHANGED << env, thrown, log, calls, startupVars, waitArgs, deployArgs, txRequest,
                    txHash, receipt, coreContracts, sent, keysetArgs, keysetRequest >>

\* index.ts:118-120, as a mutant: the catch block lets the error escape main
CatchDeploymentRethrow(err) ==
    /\ log' = Append(log, LogLine("error", "Rollup creation failed with error", <<err>>))
    /\ pc' = "Rejected"
    /\ thrown' = err

\* index.ts:118-120: the catch block of the deployment phase
CatchDeployment(err) ==
    /\ log' = Append(log, LogLine("error", "Rollup creation failed with error", <<err>>))
    /\ pc' = "PrepareKeysetRequest"
    /\ UNCHANGED thrown

\* index.ts:85-94: the argument of createRollupPrepareTransactionRequest
DeployRequestArgs ==
    [ params |-> [ config |-> createRollupConfig,
                   batchPosters |-> <<batchPoster>>,
                   validators |-> <<validator>>,
                   nativeToken |-> nativeToken ],
      account |-> deployer.address,
      publicClient |-> parentChainPublicClient ]

\* the request createRollupPrepareTransactionRequest returns for an argument
createRollupPrepareTransactionRequest(args) ==
    [ kind |-> "createRollup", chainId |-> parentChain,
      account |-> args.account, params |-> args.params ]

\* index.ts:83-101, as a mutant: "Creating rollup..." is logged before the
\* request is built
PrepareDeployRequestLogsFirst ==
    /\ pc = "PrepareDeployRequest"
    /\ deployArgs' = DeployRequestArgs
    /\ \/ /\ txRequest' = createRollupPrepareTransactionRequest(DeployRequestArgs)
          /\ calls' = Append(calls, Call("createRollupPrepareTransactionRequest", TRUE))
          /\ log' = log \o << LogLine("log", "Creating rollup...", <<>>),
                              LogLine("log", "Transaction request prepared successfully", <<>>),
                              LogLine("log", "Parent Chain ID:", <<parentChain>>) >>
          /\ pc' = "SendTransaction"
          /\ UNCHANGED thrown
       \/ /\ calls' = Append(calls, Call("createRollupPrepareTransactionRequest", FALSE))
          /\ log' = log \o << LogLine("log", "Creating rollup...", <<>>),
                              LogLine("error", "Rollup creation failed with error",
                                      <<"PrepareTransactionRequestError">>) >>
          /\ pc' = "PrepareKeysetRequest"
          /\ UNCHANGED << thrown, txRequest >>
    /\ UNCHANGED << env, startupVars, waitArgs, chainId, nativeToken, createRollupConfig,
                    txHash, receipt, coreContracts, sent, keysetArgs, keysetRequest >>

\* index.ts:83-101
PrepareDeployRequest ==
    /\ pc = "PrepareDeployRequest"
    /\ deployArgs' = DeployRequestArgs
    /\ \/ /\ txRequest' = createRollupPrepareTransactionRequest(DeployRequestArgs)
          /\ calls' = Append(calls, Call("createRollupPrepareTransactionRequest", TRUE))
          /\ log' = log \o << LogLine("log", "Transaction request prepared successfully", <<>>),
                              LogLine("log", "Parent Chain ID:", <<parentChain>>),
                              LogLine("log", "Creating rollup...", <<>>) >>
          /\ pc' = "SendTransaction"
          /\ UNCHANGED thrown
       \/ /\ calls' = Append(calls, Call("createRollupPrepareTransactionRequest", FALSE))
          /\ CatchDeployment("PrepareTransactionRequestError")
          /\ UNCHANGED txRequest
    /\ UNCHANGED << env, startupVars, waitArgs, chainId, nativeToken, createRollupConfig,
                    txHash, receipt, coreContracts, sent, keysetArgs, keysetRequest >>

\* hashes walletClient.sendTransaction may return
TxHashes == {"0xh1", "0xh2"}

\* index.ts:102-105, as a mutant: a failed submission is attempted a second time
SendTransactionRetrying ==
    /\ pc = "SendTransaction"
    /\ \/ /\ \E h \in TxHashes : txHash' = h
          /\ sent' = Append(sent, [request |-> txRequest, client |-> walletClient])
          /\ calls' = Append(calls, Call("sendTransaction", TRUE))
          /\ log' = Append(log, LogLine("log", "Transaction sent. Waiting for confirmation...", <<>>))
          /\ pc' = "WaitForReceipt"
          /\ UNCHANGED thrown
       \/ /\ sent' = sent \o << [request |-> txRequest, client |-> walletClient],
                                [request |-> txRequest, client |-> walletClient] >>
          /\ calls' = calls \o << Call("sendTransaction", FALSE), Call("sendTransaction", FALSE) >>
          /\ CatchDeployment("SendTransactionError")
          /\ UNCHANGED txHash
    /\ UNCHANGED << env, startupVars, waitArgs, chainId, nativeToken, createRollupConfig,
                    deployArgs, txRequest, receipt, coreContracts, keysetArgs, keysetRequest >>

\* index.ts:102-105
SendTransaction ==
    /\ pc = "SendTransaction"
    /\ sent' = Append(sent, [request |-> txRequest, client |-> walletClient])
    /\ \/ /\ \E h \in TxHashes : txHash' = h
          /\ calls' = Append(calls, Call("sendTransaction", TRUE))
          /\ log' = Append(log, LogLine("log", "Transaction sent. Waiting for confirmation...", <<>>))
          /\ pc' = "WaitForReceipt"
          /\ UNCHANGED thrown
       \/ /\ calls' = Append(calls, Call("sendTransaction", FALSE))
          /\ CatchDeployment("SendTransactionError")
          /\ UNCHANGED txHash
    /\ UNCHANGED << env, startupVars, waitArgs, chainId, nativeToken, createRollupConfig,
                    deployArgs, txRequest, receipt, coreContracts, keysetArgs, keysetRequest >>

\* core contracts a RollupCreated event may carry
DeployedContracts ==
    { [rollup |-> "0xAAA", inbox |-> "0xBBB", upgradeExecutor |-> "0xCCC", sequencerInbox |-> "0xDDD"],
      [rollup |-> "0xEEE", inbox |-> "0xFFF",
       upgradeExecutor |-> "0x15b5BDf7a5e0305B9a4bE413383C9b1500C8FCF2",
       sequencerInbox |-> "0x6c97864CE4bEf387dE0b3310A44230f7E3F1be0D"] }

\* receipts waitForTransactionReceipt({hash}) may return
ReceiptsFor(hash) ==
    { [transactionHash |-> hash, rollupCreated |-> FALSE, contracts |-> NoContracts] }
    \cup { [transactionHash |-> hash, rollupCreated |-> TRUE, contracts |-> c] : c \in DeployedContracts }

\* index.ts:106-107
WaitForReceipt ==
    /\ pc = "WaitForReceipt"
    /\ waitArgs' = [hash |-> txHash]
    /\ \/ /\ \E r \in ReceiptsFor(txHash) :
                /\ receipt' = r
                /\ log' = Append(log, LogLine("log", "Transaction confirmed:", <<r.transactionHash>>))
          /\ calls' = Append(calls, Call("waitForTransactionReceipt", TRUE))
          /\ pc' = "ParseReceipt"
          /\ UNCHANGED thrown
       \/ /\ calls' = Append(calls, Call("waitForTransactionReceipt", FALSE))
          /\ CatchDeployment("WaitForTransactionReceiptError")
          /\ UNCHANGED receipt
    /\ UNCHANGED << env, startupVars, chainId, nativeToken, createRollupConfig,
                    deployArgs, txRequest, txHash, coreContracts, sent, keysetArgs,
                    keysetRequest >>

\* createRollupPrepareTransactionReceipt(receipt).getCoreContracts(): the
\* contracts of the RollupCreated event; the empty set when there is none
getCoreContracts(r) == IF r.rollupCreated THEN {r.contracts} ELSE {}

\* index.ts:112-116, as a mutant: the inbox line reports the rollup address
AddressLogLinesSwapped(cc) ==
    << LogLine("log", "Core contracts:", <<cc.rollup, cc.inbox, cc.upgradeExecutor, cc.sequencerInbox>>),
       LogLine("log", "Rollup address:", <<cc.rollup>>),
       LogLine("log", "Inbox address:", <<cc.rollup>>) >>

\* index.ts:112-116
AddressLogLines(cc) ==
    << LogLine("log", "Core contracts:", <<cc.rollup, cc.inbox, cc.upgradeExecutor, cc.sequencerInbox>>),
       LogLine("log", "Rollup address:", <<cc.rollup>>),
       LogLine("log", "Inbox address:", <<cc.inbox>>) >>

\* index.ts:110-116
ParseReceipt ==
    /\ pc = "ParseReceipt"
    /\ IF getCoreContracts(receipt) = {}
         THEN /\ CatchDeployment("NoRollupCreatedEventError")
              /\ UNCHANGED coreContracts
         ELSE /\ \E cc \in getCoreContracts(receipt) :
                    /\ coreContracts' = cc
                    /\ log' = log \o AddressLogLines(cc)
              /\ pc' = "PrepareKeysetRequest"
              /\ UNCHANGED thrown
    /\ UNCHANGED << env, calls, startupVars, waitArgs, chainId, nativeToken, createRollupConfig,
                    deployArgs, txRequest, txHash, receipt, sent, keysetArgs, keysetRequest >>

\* index.ts:123
keyset == "0x0000000000000001000000000000000101216"

\* index.ts:125-128
KeysetCoreContracts ==
    [ upgradeExecutor |-> "0x15b5BDf7a5e0305B9a4bE413383C9b1500C8FCF2",
      sequencerInbox |-> "0x6c97864CE4bEf387dE0b3310A44230f7E3F1be0D" ]

\* index.ts:124-132, as a mutant: the batch poster is named as the sender
KeysetRequestArgsFromBatchPoster ==
    [ coreContracts |-> KeysetCoreContracts,
      keyset |-> keyset,
      account |-> batchPoster,
      publicClient |-> parentChainPublicClient ]

\* index.ts:124-132: the argument of setValidKeysetPrepareTransactionRequest
KeysetRequestArgs ==
    [ coreContracts |-> KeysetCoreContracts,
      keyset |-> keyset,
      account |-> deployer.address,
      publicClient |-> parentChainPublicClient ]

\* the request setValidKeysetPrepareTransactionRequest returns for an argument
setValidKeysetPrepareTransactionRequest(args) ==
    [ kind |-> "setValidKeyset", chainId |-> parentChain, account |-> args.account,
      params |-> [coreContracts |-> args.coreContracts, keyset |-> args.keyset] ]

\* index.ts:133-135, as a mutant: the catch block lets the error escape main
CatchKeysetRethrow(err) ==
    /\ pc' = "Rejected"
    /\ thrown' = err
    /\ UNCHANGED log

\* index.ts:133-135: the empty catch block of the keyset phase
CatchKeyset(err) ==
    /\ pc' = "Done"
    /\ UNCHANGED << thrown, log >>

\* index.ts:122-137
PrepareKeysetRequest ==
    /\ pc = "PrepareKeysetRequest"
    /\ keysetArgs' = KeysetRequestArgs
    /\ \/ /\ keysetRequest' = setValidKeysetPrepareTransactionRequest(KeysetRequestArgs)
          /\ calls' = Append(calls, Call("setValidKeysetPrepareTransactionRequest", TRUE))
          /\ pc' = "Done"
          /\ UNCHANGED << thrown, log >>
       \/ /\ calls' = Append(calls, Call("setValidKeysetPrepareTransactionRequest", FALSE))
          /\ CatchKeyset("SetValidKeysetPrepareTransactionRequestError")
          /\ UNCHANGED keysetRequest
    /\ UNCHANGED << env, startupVars, waitArgs, chainId, nativeToken,
                    createRollupConfig, deployArgs, txRequest, txHash, receipt,
                    coreContracts, sent >>

\* ----------------------------------------------------------- specification
Next ==
    \/ CheckDeployerKey
    \/ CheckFeeToken
    \/ CheckRpc
    \/ LoadBatchPoster
    \/ LoadValidator
    \/ CreatePublicClient
    \/ LoadDeployer
    \/ CreateWalletClient
    \/ CallMain
    \/ BuildChainParameters
    \/ PrepareDeployRequest
    \/ SendTransaction
    \/ WaitForReceipt
    \/ ParseReceipt
    \/ PrepareKeysetRequest

Spec == Init /\ [][Next]_vars

\* every started step completes: each external call returns or throws
FairSpec == Init /\ [][Next]_vars /\ WF_vars(Next)


\* -------------------------------------------------------------- vocabulary
CountCalls(fn) == Cardinality({i \in DOMAIN calls : calls[i].fn = fn})

FailedCall(fn) == \E i \in DOMAIN calls : calls[i] = Call(fn, FALSE)

SucceededCall(fn) == \E i \in DOMAIN calls : calls[i] = Call(fn, TRUE)

StartupPcs == { "CheckDeployerKey", "CheckFeeToken", "CheckRpc", "LoadBatchPoster",
                "LoadValidator", "CreatePublicClient", "LoadDeployer",
                "CreateWalletClient", "CallMain" }

MainStarted == pc \notin StartupPcs \cup {"Crashed"}

KeysetCalls == CountCalls("setValidKeysetPrepareTransactionRequest")

\* the receipt was obtained and parsing it threw
FailedParse == /\ receipt # NoReceipt
               /\ getCoreContracts(receipt) = {}
               /\ pc # "ParseReceipt"

DeploymentFailed ==
    \/ FailedCall("createRollupPrepareTransactionRequest")
    \/ FailedCall("sendTransaction")
    \/ FailedCall("waitForTransactionReceipt")
    \/ FailedParse

DeploymentSucceeded == coreContracts # NoContracts

DeploymentEnded == DeploymentFailed \/ DeploymentSucceeded

NoClientCreated == parentChainPublicClient = NoClient /\ walletClient = NoClient

NoTransactionActivity ==
    /\ calls = <<>>
    /\ deployArgs = NoRequest
    /\ keysetArgs = NoRequest
    /\ sent = <<>>

\* ---------------------------------------------------------------------- C1
\* C1: whenever the deployment phase has ended, by success or by a failure of
\* the request build, of sendTransaction, of waitForTransactionReceipt or of
\* the receipt parsing, setValidKeysetPrepareTransactionRequest is eventually
\* invoked; it is invoked at most once, and only from a state in which the
\* deployment phase has ended.
C1_KeysetInvokedAfterDeployment ==
    /\ [](KeysetCalls <= 1)
    /\ [][KeysetCalls' # KeysetCalls => DeploymentEnded]_vars
    /\ (FailedCall("createRollupPrepareTransactionRequest") ~> (KeysetCalls = 1))
    /\ (FailedCall("sendTransaction") ~> (KeysetCalls = 1))
    /\ (FailedCall("waitForTransactionReceipt") ~> (KeysetCalls = 1))
    /\ (FailedParse ~> (KeysetCalls = 1))
    /\ (DeploymentSucceeded ~> (KeysetCalls = 1))

\* the submission failed and the keyset request builder has been invoked
C1_Witness ==
    /\ FailedCall("sendTransaction")
    /\ KeysetCalls = 1
    /\ pc = "Done"

\* ---------------------------------------------------------------------- C2
\* C2: when DEPLOYER_PRIVATE_KEY or CUSTOM_FEE_TOKEN_ADDRESS is not set, the
\* script never gets past the two checks except by throwing: no client is
\* created, main is not started, nothing is built, submitted or awaited.
C2_MissingConfigStopsStartup ==
    (env.DEPLOYER_PRIVATE_KEY = Undefined \/ env.CUSTOM_FEE_TOKEN_ADDRESS = Undefined)
        => /\ pc \in {"CheckDeployerKey", "CheckFeeToken", "Crashed"}
           /\ pc = "Crashed" => thrown # ""
           /\ NoClientCreated
           /\ ~MainStarted
           /\ NoTransactionActivity

\* the deployer key is set, the fee token is not, and startup has thrown
C2_Witness ==
    /\ env.DEPLOYER_PRIVATE_KEY # Undefined
    /\ env.CUSTOM_FEE_TOKEN_ADDRESS = Undefined
    /\ pc = "Crashed"
    /\ thrown # ""


\* ---------------------------------------------------------------------- C3
\* C3: whenever the keyset request builder has been given its argument, the
\* deployment of this run has produced core contracts and the upgradeExecutor
\* and sequencerInbox of the argument are the ones of those core contracts.
C3_KeysetUsesDeployedContracts ==
    keysetArgs # NoRequest
        => /\ DeploymentSucceeded
           /\ keysetArgs.coreContracts.upgradeExecutor = coreContracts.upgradeExecutor
           /\ keysetArgs.coreContracts.sequencerInbox = coreContracts.sequencerInbox

\* ---------------------------------------------------------------------- C4
\* C4: when the run has ended and the keyset request was built, that request
\* has been given to walletClient.sendTransaction.
C4_KeysetRequestSubmitted ==
    (pc = "Done" /\ keysetRequest # NoRequest)
        => \E i \in DOMAIN sent :
              /\ sent[i].request = keysetRequest
              /\ sent[i].client = walletClient

\* ---------------------------------------------------------------------- C5
\* C5: once main has started the run reaches Done, whatever the outcomes of
\* the deployment steps and of the keyset step, and no error escapes main.
C5_MainReachesDone ==
    /\ [](MainStarted => thrown = "")
    /\ (MainStarted ~> (pc = "Done" /\ thrown = ""))

\* the run is done after the confirmation wait and the keyset build both threw
C5_Witness ==
    /\ pc = "Done"
    /\ thrown = ""
    /\ FailedCall("waitForTransactionReceipt")
    /\ FailedCall("setValidKeysetPrepareTransactionRequest")

\* ---------------------------------------------------------------------- C6
KeysetOutcomeLogged ==
    \E i \in DOMAIN log :
        /\ (\A j \in DOMAIN log : log[j].msg = "Rollup creation failed with error" => j < i)
        /\ (\A j \in DOMAIN log : log[j].msg = "Inbox address:" => j < i)

\* C6: a failed deployment phase has logged an error line by the time the
\* keyset phase starts, and a run that has ended has logged, after the lines
\* of the deployment phase, a line reporting the outcome of the keyset phase.
C6_OutcomesLogged ==
    /\ (DeploymentFailed /\ pc \in {"PrepareKeysetRequest", "Done"})
          => \E i \in DOMAIN log : log[i].level = "error"
    /\ pc = "Done" => KeysetOutcomeLogged

\* ---------------------------------------------------------------------- C7
NetworkCalls == { "createRollupPrepareTransactionRequest", "sendTransaction",
                  "waitForTransactionReceipt", "setValidKeysetPrepareTransactionRequest" }

\* C7: every network call is made at most once, so a failed call is not made
\* again; the deployment request is given to sendTransaction exactly once
\* after its build succeeded and never otherwise.
C7_NoRetry ==
    /\ \A fn \in NetworkCalls : CountCalls(fn) <= 1
    /\ Len(sent) <= 1
    /\ Len(sent) = CountCalls("sendTransaction")
    /\ (SucceededCall("createRollupPrepareTransactionRequest") /\ pc # "SendTransaction")
          => /\ Len(sent) = 1
             /\ sent[1].request = txRequest
    /\ ~SucceededCall("createRollupPrepareTransactionRequest") => sent = <<>>

\* the run is done, the single submission failed and was not repeated
C7_Witness ==
    /\ pc = "Done"
    /\ FailedCall("sendTransaction")
    /\ Len(sent) = 1
    /\ sent[1].request = txRequest

\* ---------------------------------------------------------------------- C8
LinesWith(msg) == {i \in DOMAIN log : log[i].msg = msg}

AddressMessages == {"Core contracts:", "Rollup address:", "Inbox address:"}

\* C8: after a successful deployment phase the log holds one rollup line and
\* one inbox line, carrying the rollup and inbox of the core contracts parsed
\* from the receipt, and the keyset request builder is invoked afterwards;
\* after a failed deployment phase the log holds no address line.
C8_LoggedAddresses ==
    /\ [](DeploymentSucceeded =>
            /\ coreContracts \in getCoreContracts(receipt)
            /\ Cardinality(LinesWith("Rollup address:")) = 1
            /\ Cardinality(LinesWith("Inbox address:")) = 1
            /\ \A i \in LinesWith("Rollup address:") : log[i].args = <<receipt.contracts.rollup>>
            /\ \A i \in LinesWith("Inbox address:") : log[i].args = <<receipt.contracts.inbox>>)
    /\ [](DeploymentFailed => \A i \in DOMAIN log : log[i].msg \notin AddressMessages)
    /\ [][KeysetCalls' # KeysetCalls => DeploymentEnded]_vars
    /\ (DeploymentSucceeded ~> (KeysetCalls = 1))

\* the deployment succeeded, both addresses are logged and the keyset request
\* builder has been invoked
C8_Witness ==
    /\ DeploymentSucceeded
    /\ coreContracts.rollup = "0xAAA"
    /\ \E i \in DOMAIN log : log[i] = LogLine("log", "Rollup address:", <<"0xAAA">>)
    /\ \E i \in DOMAIN log : log[i] = LogLine("log", "Inbox address:", <<"0xBBB">>)
    /\ KeysetCalls = 1

\* ---------------------------------------------------------------------- C9
\* a secret that is set and that sanitizePrivateKey rejects
IsMalformedSecret(s) == s # Undefined /\ ~sanitizePrivateKey(s).ok

MalformedIdentitySecret ==
    \/ env.BATCH_POSTER_PRIVATE_KEY # EmptyStr /\ IsMalformedSecret(env.BATCH_POSTER_PRIVATE_KEY)
    \/ env.VALIDATOR_PRIVATE_KEY # EmptyStr /\ IsMalformedSecret(env.VALIDATOR_PRIVATE_KEY)
    \/ IsMalformedSecret(env.DEPLOYER_PRIVATE_KEY)

\* C9: with a malformed batch poster, validator or deployer secret (an empty
\* deployer secret included) the script never completes startup: main is not
\* called and no transaction request is built or submitted.
C9_MalformedSecretStopsStartup ==
    MalformedIdentitySecret
        => /\ pc \in (StartupPcs \ {"CallMain"}) \cup {"Crashed"}
           /\ pc = "Crashed" => thrown # ""
           /\ NoTransactionActivity

\* startup has thrown on an empty deployer secret, the other secrets being fine
C9_Witness ==
    /\ env.DEPLOYER_PRIVATE_KEY = EmptyStr
    /\ ~IsMalformedSecret(env.BATCH_POSTER_PRIVATE_KEY)
    /\ ~IsMalformedSecret(env.VALIDATOR_PRIVATE_KEY)
    /\ env.CUSTOM_FEE_TOKEN_ADDRESS # Undefined
    /\ pc = "Crashed"
    /\ thrown = "InvalidKeyFormat"

\* --------------------------------------------------------------------- C10
\* C10: the nativeToken given to createRollupPrepareTransactionRequest is a
\* well-formed address.
C10_NativeTokenIsAddress ==
    deployArgs # NoRequest => IsAddress(deployArgs.params.nativeToken)


\* --------------------------------------------------------------------- C11
RpcMissing == env.PARENT_CHAIN_RPC = Undefined \/ env.PARENT_CHAIN_RPC = EmptyStr

WarningLines == {i \in DOMAIN log : log[i].level = "warn"}

\* the script has passed the PARENT_CHAIN_RPC check of index.ts:31-35
PassedCheckRpc ==
    /\ pc \notin {"CheckDeployerKey", "CheckFeeToken", "CheckRpc"}
    /\ env.DEPLOYER_PRIVATE_KEY # Undefined
    /\ env.CUSTOM_FEE_TOKEN_ADDRESS # Undefined

\* C11: the warning is logged (once) exactly when PARENT_CHAIN_RPC is unset or
\* empty; each client that exists is bound to the default endpoint in that
\* case and to the supplied endpoint otherwise, so both are bound to the same.
C11_ClientsShareEndpoint ==
    /\ PassedCheckRpc => Cardinality(WarningLines) = (IF RpcMissing THEN 1 ELSE 0)
    /\ ~PassedCheckRpc => WarningLines = {}
    /\ \A c \in {parentChainPublicClient, walletClient} :
          c # NoClient => c.url = (IF RpcMissing THEN DefaultRpc ELSE env.PARENT_CHAIN_RPC)
    /\ (parentChainPublicClient # NoClient /\ walletClient # NoClient)
          => parentChainPublicClient.url = walletClient.url

\* both clients exist with an empty PARENT_CHAIN_RPC: warned, default endpoint
C11_Witness ==
    /\ env.PARENT_CHAIN_RPC = EmptyStr
    /\ parentChainPublicClient.kind = "public"
    /\ walletClient.kind = "wallet"
    /\ walletClient.url = DefaultRpc
    /\ parentChainPublicClient.url = DefaultRpc
    /\ WarningLines # {}


\* --------------------------------------------------------------------- C12
\* the module-level code of index.ts:23-60 has run to its end
StartupComplete == pc \notin (StartupPcs \ {"CallMain"}) \cup {"Crashed"}

IsSupplied(s) == s # Undefined /\ s # EmptyStr

\* two secrets that are both supplied and denote the same private key
SameSuppliedKey(s, t) ==
    /\ IsSupplied(s)
    /\ IsSupplied(t)
    /\ NormalizePrivateKey(s) = NormalizePrivateKey(t)

\* C12 as stated: after startup the batch poster, validator and deployer
\* addresses are pairwise distinct, whatever well-formed secrets are supplied.
C12_AddressesPairwiseDistinct ==
    StartupComplete
        => /\ batchPoster # validator
           /\ batchPoster # deployer.address
           /\ validator # deployer.address

\* C12 amended: after startup each role has one well-formed address, and two
\* roles have the same address only when both of their secrets are supplied
\* and denote the same private key.
C12_AddressesDistinctUnlessSameKey ==
    StartupComplete
        => /\ IsAddress(batchPoster)
           /\ IsAddress(validator)
           /\ IsAddress(deployer.address)
           /\ batchPoster = validator
                 => SameSuppliedKey(env.BATCH_POSTER_PRIVATE_KEY, env.VALIDATOR_PRIVATE_KEY)
           /\ batchPoster = deployer.address
                 => SameSuppliedKey(env.BATCH_POSTER_PRIVATE_KEY, env.DEPLOYER_PRIVATE_KEY)
           /\ validator = deployer.address
                 => SameSuppliedKey(env.VALIDATOR_PRIVATE_KEY, env.DEPLOYER_PRIVATE_KEY)

\* startup ended with a generated batch poster, a supplied validator and
\* three different addresses
C12_Witness ==
    /\ StartupComplete
    /\ env.BATCH_POSTER_PRIVATE_KEY = Undefined
    /\ IsSupplied(env.VALIDATOR_PRIVATE_KEY)
    /\ batchPoster # validator
    /\ batchPoster # deployer.address
    /\ validator # deployer.address


\* --------------------------------------------------------------------- C13
\* index.ts:38 has been executed: withFallbackPrivateKey has been applied to
\* BATCH_POSTER_PRIVATE_KEY
BatchPosterKeyResolved ==
    /\ pc \notin {"CheckDeployerKey", "CheckFeeToken", "CheckRpc", "LoadBatchPoster"}
    /\ env.DEPLOYER_PRIVATE_KEY # Undefined
    /\ env.CUSTOM_FEE_TOKEN_ADDRESS # Undefined

\* index.ts:42 has been executed: withFallbackPrivateKey has been applied to
\* VALIDATOR_PRIVATE_KEY
ValidatorKeyResolved ==
    /\ BatchPosterKeyResolved
    /\ batchPosterPrivateKey # Undefined
    /\ pc # "LoadValidator"

\* what withFallbackPrivateKey did with the secret `input`, `key` being the
\* variable its result is assigned to
FallbackOutcome(input, key) ==
    IF ~IsSupplied(input)
      THEN /\ key \in GeneratedKeys
           /\ key # NormalizePrivateKey(input)
      ELSE IF IsMalformedSecret(input)
             THEN /\ key = Undefined
                  /\ pc = "Crashed"
                  /\ thrown = "InvalidKeyFormat"
             ELSE /\ key = NormalizePrivateKey(input)
                  /\ IsWellFormedHex(key)
                  /\ HasHexPrefix(input) => key = input

\* C13: withFallbackPrivateKey yields a generated key when its input is
\* undefined or empty; for a well-formed input it yields the sanitized input;
\* for a malformed one it yields nothing and the script stops with an error.
C13_FallbackOnlyWhenAbsent ==
    /\ BatchPosterKeyResolved
          => FallbackOutcome(env.BATCH_POSTER_PRIVATE_KEY, batchPosterPrivateKey)
    /\ ValidatorKeyResolved
          => FallbackOutcome(env.VALIDATOR_PRIVATE_KEY, validatorPrivateKey)
    /\ ~BatchPosterKeyResolved => batchPosterPrivateKey = Undefined
    /\ ~ValidatorKeyResolved => validatorPrivateKey = Undefined

\* an empty batch poster secret gave a generated key, and a malformed
\* validator secret stopped the script
C13_Witness ==
    /\ env.BATCH_POSTER_PRIVATE_KEY = EmptyStr
    /\ batchPosterPrivateKey \in GeneratedKeys
    /\ IsSupplied(env.VALIDATOR_PRIVATE_KEY)
    /\ IsMalformedSecret(env.VALIDATOR_PRIVATE_KEY)
    /\ validatorPrivateKey = Undefined
    /\ pc = "Crashed"


\* --------------------------------------------------------------------- C14
\* the awaited calls of the deployment phase, in the order of index.ts:85-106
DeploymentCallOrder ==
    << "createRollupPrepareTransactionRequest", "sendTransaction", "waitForTransactionReceipt" >>

IsDeploymentCall(c) == \E i \in DOMAIN DeploymentCallOrder : c.fn = DeploymentCallOrder[i]

\* the progress lines of the deployment phase, in the order of index.ts:97-116
ProgressOrder ==
    << "Transaction request prepared successfully", "Parent Chain ID:", "Creating rollup...",
       "Transaction sent. Waiting for confirmation...", "Transaction confirmed:",
       "Core contracts:", "Rollup address:", "Inbox address:" >>

IsProgressLine(l) == \E i \in DOMAIN ProgressOrder : l.msg = ProgressOrder[i]

\* the number of progress lines of the steps that have completed
ProgressReached ==
    IF DeploymentSucceeded THEN 8
    ELSE IF SucceededCall("waitForTransactionReceipt") THEN 5
    ELSE IF SucceededCall("sendTransaction") THEN 4
    ELSE IF SucceededCall("createRollupPrepareTransactionRequest") THEN 3
    ELSE 0

\* C14: the deployment calls are made in the order build, submit, wait, each
\* after the success of the previous one; the request submitted is the one the
\* build returned, the hash waited for is the one the submission returned, the
\* core contracts are those of the receipt the wait returned; the progress
\* lines appear in source order, exactly those of the steps that completed.
C14_DeploymentStepOrder ==
    LET d == SelectSeq(calls, IsDeploymentCall)
        p == SelectSeq(log, IsProgressLine)
    IN  /\ Len(d) <= Len(DeploymentCallOrder)
        /\ \A i \in DOMAIN d :
              /\ d[i].fn = DeploymentCallOrder[i]
              /\ i < Len(d) => d[i].ok
        /\ \A i \in DOMAIN sent :
              /\ SucceededCall("createRollupPrepareTransactionRequest")
              /\ sent[i].request = txRequest
              /\ sent[i].request = createRollupPrepareTransactionRequest(deployArgs)
        /\ waitArgs # NoRequest
              => /\ SucceededCall("sendTransaction")
                 /\ waitArgs.hash = txHash
                 /\ txHash \in TxHashes
        /\ receipt # NoReceipt => SucceededCall("waitForTransactionReceipt")
        /\ DeploymentSucceeded
              => /\ SucceededCall("waitForTransactionReceipt")
                 /\ coreContracts \in getCoreContracts(receipt)
        /\ Len(p) = ProgressReached
        /\ \A i \in DOMAIN p : p[i].msg = ProgressOrder[i]

\* the confirmation wait threw: three calls were made and four progress lines
\* logged, none about a confirmation or an address
C14_Witness ==
    /\ FailedCall("waitForTransactionReceipt")
    /\ Len(SelectSeq(calls, IsDeploymentCall)) = 3
    /\ Len(SelectSeq(log, IsProgressLine)) = 4
    /\ waitArgs.hash = txHash
    /\ pc = "Done"


\* --------------------------------------------------------------------- C15
\* C15: the chain id is set once and never changes; no request is built before
\* it is set; the deployment parameters and the chain config inside them carry
\* that chain id, and their owner and InitialChainOwner are the deployer
\* address; the deployment request is built from these parameters.
C15_SingleChainId ==
    /\ [][chainId # 0 => chainId' = chainId]_vars
    /\ [][createRollupConfig # NoConfig => createRollupConfig' = createRollupConfig]_vars
    /\ [](chainId = 0 => (createRollupConfig = NoConfig /\ deployArgs = NoRequest
                             /\ keysetArgs = NoRequest /\ calls = <<>>))
    /\ [](chainId # 0 =>
            /\ chainId \in ChainIds
            /\ createRollupConfig.chainId = chainId
            /\ createRollupConfig.chainConfig.chainId = chainId
            /\ createRollupConfig.owner = deployer.address
            /\ createRollupConfig.chainConfig.InitialChainOwner = deployer.address
            /\ IsAddress(deployer.address))
    /\ [](deployArgs # NoRequest => deployArgs.params.config = createRollupConfig)

\* the deployment request was built from parameters carrying the chain id
C15_Witness ==
    /\ chainId = MaxChainId
    /\ deployArgs # NoRequest
    /\ deployArgs.params.config.chainId = MaxChainId
    /\ deployArgs.params.config.chainConfig.chainId = MaxChainId
    /\ deployArgs.params.config.owner = deployer.address

\* --------------------------------------------------------------------- C16
\* C16: the deployment request and the keyset request name the deployer
\* address as their account; every request given to sendTransaction went to
\* the wallet client, whose account is the deployer; at most one was given.
C16_DeployerIsSender ==
    /\ deployArgs # NoRequest => deployArgs.account = deployer.address
    /\ txRequest # NoRequest => txRequest.account = deployer.address
    /\ keysetArgs # NoRequest => keysetArgs.account = deployer.address
    /\ keysetRequest # NoRequest => keysetRequest.account = deployer.address
    /\ (deployArgs # NoRequest \/ keysetArgs # NoRequest) => IsAddress(deployer.address)
    /\ \A i \in DOMAIN sent :
          /\ sent[i].client = walletClient
          /\ sent[i].client.kind = "wallet"
          /\ sent[i].client.account = deployer
          /\ sent[i].request.account = sent[i].client.account.address
    /\ Len(sent) <= 1

\* both requests were built and the deployment request was broadcast
C16_Witness ==
    /\ pc = "Done"
    /\ Len(sent) = 1
    /\ sent[1].request.account = deployer.address
    /\ keysetRequest # NoRequest
    /\ keysetRequest.account = deployer.address
    /\ batchPoster # deployer.address

====
